---- MODULE Spec2Model ----
(***************************************************************************)
(* Customer ledger of the loyalty admin application: the customers table,  *)
(* the audit_logs table, the tier calculator, the four mutations of the    *)
(* SupabaseDB service (addCustomer, updateCustomer, updatePoints,          *)
(* deleteCustomer) as sequences of store calls issued by concurrent        *)
(* callers, the list, search and audit queries, the in-memory MockDB       *)
(* service, and the admin UI.                                              *)
(*                                                                         *)
(* Every store call (one awaited supabase request) is one atomic step.     *)
(* Strings (names, phones) are sequences of one-character strings so that  *)
(* String.prototype.trim and toLowerCase are computed, not assumed.        *)
(***************************************************************************)
EXTENDS Integers, Sequences, FiniteSets, TLC

VARIABLES
    customers,   \* the customers table: id -> row, domain = ids of existing rows
    audit,       \* the audit_logs table, in insertion order
    nextId,      \* next customer id the store assigns
    clock,       \* the store's clock (created_at of the next inserted row)
    opsStarted,  \* number of service operations started so far
    pc,          \* per caller: the store call it is about to issue
    args,        \* per caller: arguments of its current operation
    snap,        \* per caller: the row its operation read, wrote or returned
    result,      \* per caller: outcome of its last finished operation
    failures,    \* number of store calls that have failed so far
    tierIn,      \* tier calculator harness: last input
    tierOut,     \* tier calculator harness: last output
    queried,     \* the last List / Search / audit query and what it returned
    mock,        \* the MockDB instance: its customers array and its last call
    ui           \* the admin UI: customer form, points modal, confirm dialog

vars == <<customers, audit, nextId, clock, opsStarted, pc, args, snap, result,
          failures, tierIn, tierOut, queried, mock, ui>>

-----------------------------------------------------------------------------
(* Bounds of the model *)

MaxOps == 2
MaxCustomers == 2
MaxFailures == 1
TierSamples == 20
MaxOpens == 2
MaxPending == 2
MaxLogs == 3

Callers == {1, 2}

(* Inputs *)
CreateNameInputs == {<<" ", "a">>}
UpdateNameInputs == {<<"b">>}
PhoneInputs == {<<"1">>, <<"1", " ">>, <<"2">>}
InitialPointsInputs == {0, 950}
UpdatePointsInputs == {5000}
DeltaInputs == {100, -1050}
SearchInputs == {<<"A">>, <<"1">>}
LimitInputs == {1, 2}
ActionTypeInputs == {"customer_created", "points_added"}
CustomerRefInputs == {1, 2}
UiCustomers == {1, 2}

\* an id no row ever has: the store issues the ids 1..MaxCustomers only
UnknownId == MaxCustomers + 1
AmountInputs == {-5, 0, 5}

-----------------------------------------------------------------------------
(* Tier calculator *)

\* calculateTier with the comparisons made strict
calculateTier_strict(points) ==
    IF points > 5000 THEN "platinum"
    ELSE IF points > 1000 THEN "gold"
    ELSE "standard"

GOLD == 1000
PLATINUM == 5000

calculateTier(points) ==
    IF points >= PLATINUM THEN "platinum"
    ELSE IF points >= GOLD THEN "gold"
    ELSE "standard"

-----------------------------------------------------------------------------
(* Strings *)

RECURSIVE TrimStart(_)
TrimStart(s) ==
    IF s # <<>> /\ Head(s) = " " THEN TrimStart(Tail(s)) ELSE s

RECURSIVE TrimEnd(_)
TrimEnd(s) ==
    IF s # <<>> /\ s[Len(s)] = " " THEN TrimEnd(SubSeq(s, 1, Len(s) - 1)) ELSE s

Trim(s) == TrimEnd(TrimStart(s))

UpperLetters == <<"A", "B", "C", "D", "E", "F", "G", "H", "I", "J", "K", "L", "M",
                  "N", "O", "P", "Q", "R", "S", "T", "U", "V", "W", "X", "Y", "Z">>

LowerLetters == <<"a", "b", "c", "d", "e", "f", "g", "h", "i", "j", "k", "l", "m",
                  "n", "o", "p", "q", "r", "s", "t", "u", "v", "w", "x", "y", "z">>

\* one character lowercased
Lower(c) ==
    IF \E k \in 1..26 : UpperLetters[k] = c
    THEN LowerLetters[CHOOSE k \in 1..26 : UpperLetters[k] = c]
    ELSE c

\* String.prototype.toLowerCase
LowerCase(s) == [k \in 1..Len(s) |-> Lower(s[k])]

\* String.prototype.includes
Includes(s, q) ==
    \E k \in 0..(Len(s) - Len(q)) : SubSeq(s, k + 1, k + Len(q)) = q

-----------------------------------------------------------------------------
(* Nullable columns: <<>> is NULL, <<v>> is the value v *)

Null == <<>>
Some(v) == <<v>>

NoRow == [id |-> 0, name |-> <<>>, phone |-> <<>>, points |-> 0,
          points_redeemed |-> 0, tier |-> "standard", created_at |-> 0]

NoArgs == [op |-> "none", id |-> 0, name |-> <<>>, phone |-> <<>>, points |-> 0]

-----------------------------------------------------------------------------
(* Row computations of the SupabaseDB service *)

Abs(n) == IF n < 0 THEN -n ELSE n

\* addCustomer: the row sent to the store (id and created_at are store-assigned)
NewCustomer(name, phone, points) ==
    [name |-> Trim(name), phone |-> Trim(phone), points |-> points,
     points_redeemed |-> 0, tier |-> calculateTier(points)]

\* updateCustomer: .update(updates) with the caller's { name, phone, points }
UpdatedRow(row, name, phone, points) ==
    [row EXCEPT !.name = name, !.phone = phone, !.points = points]

\* NewPoints clamped at zero
NewPoints_clamped(cur, amount) ==
    IF cur.points + amount < 0 THEN 0 ELSE cur.points + amount

\* NewPoints setting the balance to the amount
NewPoints_overwrite(cur, amount) == amount

\* updatePoints: the three values computed from the row read first
NewPoints(cur, amount) == cur.points + amount

NewPointsRedeemed(cur, amount) ==
    IF amount < 0 THEN cur.points_redeemed + Abs(amount) ELSE cur.points_redeemed

\* AdjustedRow writing back the whole row as it was read
AdjustedRow_wholeRow(row, cur, amount) ==
    [cur EXCEPT !.points = NewPoints(cur, amount),
                !.points_redeemed = NewPointsRedeemed(cur, amount),
                !.tier = calculateTier(NewPoints(cur, amount))]

\* updatePoints: .update({ points, points_redeemed, tier }) applied to the stored row
AdjustedRow(row, cur, amount) ==
    [row EXCEPT !.points = NewPoints(cur, amount),
                !.points_redeemed = NewPointsRedeemed(cur, amount),
                !.tier = calculateTier(NewPoints(cur, amount))]

\* PhoneExists ignoring excludeId
PhoneExists_any(phone, excludeId) ==
    \E i \in DOMAIN customers : customers[i].phone = Trim(phone)

\* PhoneExists(phone, excludeId): some other row holds the trimmed phone
\* (excludeId = 0 excludes nothing)
PhoneExists(phone, excludeId) ==
    \E i \in DOMAIN customers :
        i # excludeId /\ customers[i].phone = Trim(phone)

-----------------------------------------------------------------------------
(* The store *)

\* insert into customers ... returning the row
InsertedCustomer(row) ==
    [id |-> nextId, name |-> row.name, phone |-> row.phone, points |-> row.points,
     points_redeemed |-> row.points_redeemed, tier |-> row.tier,
     created_at |-> clock]

\* ON DELETE SET NULL: what deleting customer id does to audit_logs
OnDeleteSetNull(log, id) ==
    [i \in 1..Len(log) |->
        IF log[i].customer_id = Some(id)
        THEN [log[i] EXCEPT !.customer_id = Null]
        ELSE log[i]]

-----------------------------------------------------------------------------
(* Queries *)

RECURSIVE NewestFirst(_, _)
NewestFirst(log, n) ==
    IF n = 0 THEN <<>> ELSE <<log[n]>> \o NewestFirst(log, n - 1)

\* getCustomerAuditLogs(customerId): .eq('customer_id', id), newest first, no limit
LogsForCustomerIn(log, id) ==
    LET Keep(r) == r.customer_id = Some(id)
        kept == SelectSeq(log, Keep)
    IN  NewestFirst(kept, Len(kept))

LogsForCustomer(id) == LogsForCustomerIn(audit, id)

\* .order('created_at', { ascending: false }) over a set of rows
RECURSIVE OrderByCreatedAtDesc(_)
OrderByCreatedAtDesc(rows) ==
    IF rows = {} THEN << >>
    ELSE LET newest == CHOOSE r \in rows :
                           \A o \in rows : o.created_at <= r.created_at
         IN  <<newest>> \o OrderByCreatedAtDesc(rows \ {newest})

\* .limit(n)
Limit(rows, n) == SubSeq(rows, 1, IF n < Len(rows) THEN n ELSE Len(rows))

\* ilike '%query%': matching ignores case
Contains(s, q) == Includes(LowerCase(s), LowerCase(q))

CustomerRows == {customers[i] : i \in DOMAIN customers}

AuditRows == {audit[i] : i \in 1..Len(audit)}

\* getCustomers: select('*').order('created_at', { ascending: false })
ListRows == OrderByCreatedAtDesc(CustomerRows)

\* searchCustomers: .or(name.ilike.%query%, phone.ilike.%query%), newest first
SearchRows(q) ==
    OrderByCreatedAtDesc({r \in CustomerRows : Contains(r.name, q) \/ Contains(r.phone, q)})

\* getAuditLogs(limit): newest first, truncated to limit
RecentLogsRows(limit) == Limit(OrderByCreatedAtDesc(AuditRows), limit)

\* RecentLogsByAction with the limit applied before the filter
LogsByActionRows_limitFirst(type, limit) ==
    SelectSeq(Limit(OrderByCreatedAtDesc(AuditRows), limit),
              LAMBDA r : r.action_type = type)

\* getAuditLogsByAction(actionType, limit): filtered, newest first, then limited
LogsByActionRows(type, limit) ==
    Limit(OrderByCreatedAtDesc({r \in AuditRows : r.action_type = type}), limit)

\* n numbers the queries issued so far
NoQuery == [n |-> 0, op |-> "none", text |-> << >>, action |-> "none", id |-> 0,
            limit |-> 0, failed |-> FALSE, raised |-> FALSE, rows |-> << >>,
            exists |-> FALSE]

\* QueryOutcome rethrowing the store error
QueryOutcome_propagating(q, fail, rows) ==
    [q EXCEPT !.failed = fail, !.raised = fail,
              !.rows = IF fail THEN << >> ELSE rows]

\* try { ... if (error) throw error; return data || [] } catch { return [] }
QueryOutcome(q, fail, rows) ==
    [q EXCEPT !.failed = fail, !.raised = FALSE,
              !.rows = IF fail THEN << >> ELSE rows]

-----------------------------------------------------------------------------
(* The in-memory MockDB service: this.customers is an array of rows that    *)
(* have a tier only when addCustomer was given one. A row is found by its   *)
(* position, 0 standing for the -1 of findIndex.                            *)

\* the tier of a row that has no tier property
NoTier == "undefined"

MockRow(id, name, phone, points, redeemed, at, tier) ==
    [id |-> id, name |-> name, phone |-> phone, points |-> points,
     points_redeemed |-> redeemed, created_at |-> at, tier |-> tier]

\* private customers: Customer[] = [ ... ]
MockCustomers ==
    << MockRow("1", <<"A", "l", "i", "c", "e", " ", "J", "o", "h", "n", "s", "o", "n">>,
               <<"+", "6", "0", " ", "1", "2", "-", "3", "4", "5", " ", "6", "7", "8", "9">>,
               1250, 500, 0, NoTier),
       MockRow("2", <<"B", "o", "b", " ", "S", "m", "i", "t", "h">>,
               <<"+", "6", "0", " ", "1", "1", "-", "2", "3", "4", " ", "5", "6", "7", "8">>,
               450, 150, 0, NoTier),
       MockRow("3", <<"C", "h", "a", "r", "l", "i", "e", " ", "D", "a", "v", "i", "s">>,
               <<"+", "6", "0", " ", "1", "3", "-", "4", "5", "6", " ", "7", "8", "9", "0">>,
               8900, 4200, 0, NoTier),
       MockRow("4", <<"D", "i", "a", "n", "a", " ", "P", "r", "i", "n", "c", "e">>,
               <<"+", "6", "0", " ", "1", "4", "-", "5", "6", "7", " ", "8", "9", "0", "1">>,
               300, 0, 0, NoTier) >>

NoMockRow == MockRow("", << >>, << >>, 0, 0, 0, NoTier)

\* calls numbers the calls made so far; last is the latest call: its
\* arguments, whether it returned a row (found), the row and the rows
NoMockCall == [op |-> "none", id |-> "", name |-> << >>, phone |-> << >>,
               points |-> 0, found |-> FALSE, row |-> NoMockRow, rows |-> << >>]

InitMock == [customers |-> MockCustomers, calls |-> 0, last |-> NoMockCall]

\* Math.random().toString(36).substr(2, 9): any id, an earlier one included
MockIdInputs == {"r1", "r2"}

MockPointsInputs == {950}

\* the tier of the customer passed to addCustomer: none, as App passes, or one
MockTierInputs == {NoTier, "standard"}

MockPhoneInputs ==
    { <<"1", " ">>,
      <<"+", "6", "0", " ", "1", "2", "-", "3", "4", "5", " ", "6", "7", "8", "9">> }

MockLookupInputs == {"1", "r1", "9"}

MockSearchInputs == {<<"A", "L">>, <<"6", "0", " ", "1", "1">>}

\* this.customers.findIndex(c => c.id === id), counted from 1
MockFindIndex(rows, id) ==
    IF \E k \in 1..Len(rows) : rows[k].id = id
    THEN CHOOSE k \in 1..Len(rows) :
            rows[k].id = id /\ \A j \in 1..(k - 1) : rows[j].id # id
    ELSE 0

\* { ...customer, id, points_redeemed: 0, created_at }
MockNewCustomer(name, phone, points, tier, id, at) ==
    MockRow(id, name, phone, points, 0, at, tier)

\* points += amount; if (amount < 0) points_redeemed += Math.abs(amount)
MockAdjusted(row, amount) ==
    [row EXCEPT !.points = @ + amount,
                !.points_redeemed = IF amount < 0 THEN @ + Abs(amount) ELSE @]

\* filter(c => c.name.toLowerCase().includes(q) || c.phone.includes(q))
MockSearchRows(rows, query) ==
    LET q == LowerCase(query)
    IN  SelectSeq(rows, LAMBDA c : Includes(LowerCase(c.name), q) \/ Includes(c.phone, q))

-----------------------------------------------------------------------------
(* The admin UI: state of App, CustomerForm, PointsModal and the confirm     *)
(* dialog. A customer is named by its id, 0 standing for null. gen numbers   *)
(* the mounted instance of a component: the isSubmitting and error state of  *)
(* an instance is gone when it is unmounted, the calls it awaits are not.    *)

DuplicateMessage == "This phone number is already registered."

ClosedForm(gen) == [open |-> FALSE, customer |-> 0, submitting |-> FALSE,
                    phoneError |-> "", gen |-> gen]

ClosedModal(gen) == [open |-> FALSE, customer |-> 0, amount |-> 0, type |-> "add",
                     submitting |-> FALSE, gen |-> gen]

\* useState({ isOpen: false, customer: null })
ClosedDialog == [isOpen |-> FALSE, customer |-> 0]

\* App once mounted: both useEffect hooks have started fetchCustomers, each
\* awaiting its connection test; fetchTest and fetchList count the calls
\* awaiting the connection test and db.getCustomers
\* last is the latest of: a db call settling (save, update, delete, with its
\* outcome) and a dialog handler running (open, confirm, cancel)
InitUi == [form |-> ClosedForm(0), formPending |-> {},
           modal |-> ClosedModal(0), modalPending |-> << >>,
           dialog |-> ClosedDialog, deletePending |-> << >>,
           last |-> [op |-> "none", outcome |-> "none"],
           note |-> "none", opened |-> 0,
           loading |-> TRUE, fetchTest |-> 2, fetchList |-> 0]

\* what SupabaseDB.addCustomer (customer = 0) and updateCustomer answer: the
\* row, a thrown Error('Database error: ...'), or null
SaveResults(customer) ==
    IF customer = 0 THEN {"ok", "Error"} ELSE {"ok", "null"}

\* App.handleSaveCustomer: every failure is caught and shown as a
\* notification; nothing is rethrown to the form
SaveThrows(outcome) == FALSE

\* validatePhone: setPhoneError(<message>) when the phone is empty or not a
\* valid number, setPhoneError('') otherwise
PhoneErrorAfter(phoneValid) == IF phoneValid THEN "" ELSE "invalid"

\* the number of a newly mounted instance: the least one that no call still
\* awaited was issued under
FreshGen(used) == CHOOSE g \in 1..(MaxPending + 1) :
                      g \notin used /\ \A h \in 1..(g - 1) : h \in used

\* <CustomerForm> is rendered while isFormOpen || editingCustomer: opening it
\* for customer c while it is open keeps the mounted instance and its state
FormOpened(form, c, gen) ==
    IF form.open THEN [form EXCEPT !.customer = c]
    ELSE [ClosedForm(gen) EXCEPT !.open = TRUE, !.customer = c]

\* <PointsModal> is rendered while pointsAdjustmentCustomer is set
ModalOpened(modal, c, gen) ==
    IF modal.open THEN [modal EXCEPT !.customer = c]
    ELSE [ClosedModal(gen) EXCEPT !.open = TRUE, !.customer = c]

\* the form after the onSave call c of one of its instances has settled
FormAfterSave(form, c, outcome) ==
    LET app == IF outcome = "ok" THEN ClosedForm(0) ELSE form
        caught == IF outcome = "DuplicatePhone" /\ app.open /\ app.gen = c.gen
                  THEN [app EXCEPT !.phoneError = DuplicateMessage]
                  ELSE app
        settled == IF SaveThrows(outcome) THEN caught ELSE ClosedForm(0)
    IN  IF settled.open /\ settled.gen = c.gen
        THEN [settled EXCEPT !.submitting = FALSE]
        ELSE settled

\* PointsModal.handleSubmit: finalAmount
FinalAmount(type, amount) == IF type = "add" THEN amount ELSE 0 - amount

\* the submit button disabled whatever isSubmitting is
SubmitDisabled_amountOnly(modal) == modal.amount <= 0

\* PointsModal submit button: disabled={amount <= 0 || isSubmitting}
SubmitDisabled(modal) == modal.amount <= 0 \/ modal.submitting

\* what db.updatePoints and db.deleteCustomer can answer
UpdateOutcomes == {"ok", "null"}
DeleteOutcomes == {"true", "false"}

\* what the connection test of fetchCustomers can answer: data, an error
\* object, or a rejected promise
FetchTestOutcomes == {"ok", "error", "throws"}

\* confirmDeleteCustomer resetting the dialog only after a successful delete
DialogAfterDelete_onSuccess(dialog, outcome) ==
    IF outcome = "true" THEN ClosedDialog ELSE dialog

\* confirmDeleteCustomer: finally { setDeleteConfirm({ isOpen: false, customer: null }) }
DialogAfterDelete(dialog, outcome) == ClosedDialog

\* seq without its k-th element
RemoveAt(seq, k) == SubSeq(seq, 1, k - 1) \o SubSeq(seq, k + 1, Len(seq))

-----------------------------------------------------------------------------
(* Initial state: an empty store or a store holding the one or two          *)
(* customers that addCustomer has left, every caller idle. The audit_logs   *)
(* table is empty: no operation of the service inserts into it.             *)

\* The customers table after addCustomer(" a", "1", 950) ran alone.
SeededCustomers == (1 :> [id |-> 1, name |-> <<"a">>, phone |-> <<"1">>,
                          points |-> 950, points_redeemed |-> 0,
                          tier |-> "standard", created_at |-> 1])

\* The customers table after addCustomer(" a", "2", 0) followed.
SeededTwoCustomers ==
    [i \in {1, 2} |->
        IF i = 1 THEN SeededCustomers[1]
        ELSE [id |-> 2, name |-> <<"a">>, phone |-> <<"2">>, points |-> 0,
              points_redeemed |-> 0, tier |-> "standard", created_at |-> 4]]

NoResult == [op |-> "none", value |-> "none"]

Init ==
    /\ \/ /\ customers = << >>
          /\ audit = << >>
          /\ nextId = 1
          /\ clock = 1
       \/ /\ customers = SeededCustomers
          /\ audit = << >>
          /\ nextId = 2
          /\ clock = 4
       \/ /\ customers = SeededTwoCustomers
          /\ audit = << >>
          /\ nextId = 3
          /\ clock = 6
    /\ opsStarted = 0
    /\ pc = [p \in Callers |-> "idle"]
    /\ args = [p \in Callers |-> NoArgs]
    /\ snap = [p \in Callers |-> NoRow]
    /\ result = [p \in Callers |-> NoResult]
    /\ failures = 0
    /\ tierIn = 0
    /\ tierOut = "none"
    /\ queried = NoQuery
    /\ mock = InitMock
    /\ ui = InitUi

-----------------------------------------------------------------------------
(* Control flow of one caller *)

\* the ids a caller may pass: those issued so far, and one of no row
IdInputs == 1..(nextId - 1) \cup {UnknownId}

\* Callers are interchangeable: a new operation is taken by the lowest idle
\* caller. What a caller still holds of its last operation is overwritten.
Begin(p, a, first) ==
    /\ pc[p] = "idle"
    /\ \A q \in Callers : q < p => pc[q] # "idle"
    /\ opsStarted < MaxOps
    /\ opsStarted' = opsStarted + 1
    /\ pc' = [pc EXCEPT ![p] = first]
    /\ args' = [args EXCEPT ![p] = a]
    /\ snap' = [snap EXCEPT ![p] = NoRow]
    /\ result' = [result EXCEPT ![p] = NoResult]
    /\ UNCHANGED <<customers, audit, nextId, clock, failures, tierIn, tierOut,
                   queried, mock, ui>>

\* the operation returns: r names the outcome ("Error" is a thrown error),
\* row is the row returned with "ok"
Finish(p, r, row) ==
    /\ pc' = [pc EXCEPT ![p] = "idle"]
    /\ result' = [result EXCEPT ![p] = [op |-> args[p].op, value |-> r]]
    /\ snap' = [snap EXCEPT ![p] = row]
    /\ UNCHANGED args

\* the operation goes on to its next store call, holding row
Goto(p, next, row) ==
    /\ pc' = [pc EXCEPT ![p] = next]
    /\ snap' = [snap EXCEPT ![p] = row]
    /\ UNCHANGED <<result, args>>

\* one store call: it resolves, or it fails (the request returns an error)
StoreCall(fail) ==
    /\ fail => failures < MaxFailures
    /\ failures' = IF fail THEN failures + 1 ELSE failures

-----------------------------------------------------------------------------
(* addCustomer(name, phone, points) *)

StartCreate(p) ==
    \E n \in CreateNameInputs, ph \in PhoneInputs, pts \in InitialPointsInputs :
        /\ nextId <= MaxCustomers
        /\ Begin(p, [op |-> "create", id |-> 0, name |-> n, phone |-> ph,
                     points |-> pts], "create_insert")

\* supabase.from('customers').insert([newCustomer]).select().single()
CreateInsert(p) ==
    /\ pc[p] = "create_insert"
    /\ \E fail \in BOOLEAN :
        /\ StoreCall(fail)
        /\ IF fail
           THEN /\ Finish(p, "Error", NoRow)
                /\ UNCHANGED <<customers, nextId, clock>>
           ELSE LET data == InsertedCustomer(
                               NewCustomer(args[p].name, args[p].phone, args[p].points))
                IN  /\ customers' = [i \in DOMAIN customers \cup {nextId} |->
                                       IF i = nextId THEN data ELSE customers[i]]
                    /\ nextId' = nextId + 1
                    /\ clock' = clock + 1
                    /\ Finish(p, "ok", data)
    /\ UNCHANGED <<audit, opsStarted, tierIn, tierOut, queried, mock, ui>>

-----------------------------------------------------------------------------
(* updateCustomer(id, { name, phone, points }) *)

StartUpdate(p) ==
    \E id \in IdInputs, n \in UpdateNameInputs, ph \in PhoneInputs,
       pts \in UpdatePointsInputs :
        Begin(p, [op |-> "update", id |-> id, name |-> n, phone |-> ph,
                  points |-> pts], "update_write")

\* supabase.from('customers').update(updates).eq('id', id).select().single()
UpdateWrite(p) ==
    /\ pc[p] = "update_write"
    /\ \E fail \in BOOLEAN :
        /\ StoreCall(fail)
        /\ IF fail \/ args[p].id \notin DOMAIN customers
           THEN /\ Finish(p, "null", NoRow)
                /\ UNCHANGED customers
           ELSE LET data == UpdatedRow(customers[args[p].id], args[p].name,
                                       args[p].phone, args[p].points)
                IN  /\ customers' = [customers EXCEPT ![args[p].id] = data]
                    /\ Finish(p, "ok", data)
    /\ UNCHANGED <<audit, nextId, clock, opsStarted, tierIn, tierOut, queried,
                   mock, ui>>

-----------------------------------------------------------------------------
(* updatePoints(id, amount) *)

StartAdjust(p) ==
    \E id \in IdInputs, d \in DeltaInputs :
        Begin(p, [op |-> "adjust", id |-> id, name |-> << >>, phone |-> << >>,
                  points |-> d], "adjust_read")

\* AdjustRead going on to the write whatever it read
AdjustRead_unguarded(p) ==
    /\ pc[p] = "adjust_read"
    /\ \E fail \in BOOLEAN :
        /\ StoreCall(fail)
        /\ Goto(p, "adjust_write",
                IF fail \/ args[p].id \notin DOMAIN customers
                THEN NoRow ELSE customers[args[p].id])
    /\ UNCHANGED <<customers, audit, nextId, clock, opsStarted, tierIn, tierOut,
                   queried, mock, ui>>

\* supabase.from('customers').select('*').eq('id', id).single()
AdjustRead(p) ==
    /\ pc[p] = "adjust_read"
    /\ \E fail \in BOOLEAN :
        /\ StoreCall(fail)
        /\ IF fail \/ args[p].id \notin DOMAIN customers
           THEN Finish(p, "null", NoRow)
           ELSE Goto(p, "adjust_write", customers[args[p].id])
    /\ UNCHANGED <<customers, audit, nextId, clock, opsStarted, tierIn, tierOut,
                   queried, mock, ui>>

\* AdjustWrite that also inserts a tier_changed row when the tier changes
AdjustWrite_loggingTier(p) ==
    /\ pc[p] = "adjust_write"
    /\ \E fail \in BOOLEAN :
        /\ StoreCall(fail)
        /\ IF fail \/ args[p].id \notin DOMAIN customers
           THEN /\ Finish(p, "null", NoRow)
                /\ UNCHANGED <<customers, audit, clock>>
           ELSE LET data == AdjustedRow(customers[args[p].id], snap[p], args[p].points)
                IN  /\ customers' = [customers EXCEPT ![args[p].id] = data]
                    /\ IF data.tier # snap[p].tier
                       THEN /\ audit' = Append(audit,
                                   [id |-> Len(audit) + 1,
                                    action_type |-> "tier_changed",
                                    customer_id |-> Some(data.id),
                                    customer_name |-> data.name,
                                    points_change |-> Null,
                                    created_at |-> clock])
                            /\ clock' = clock + 1
                       ELSE UNCHANGED <<audit, clock>>
                    /\ Finish(p, "ok", data)
    /\ UNCHANGED <<nextId, opsStarted, tierIn, tierOut, queried, mock, ui>>

\* supabase.from('customers').update({points, points_redeemed, tier})
\*     .eq('id', id).select().single()
AdjustWrite(p) ==
    /\ pc[p] = "adjust_write"
    /\ \E fail \in BOOLEAN :
        /\ StoreCall(fail)
        /\ IF fail \/ args[p].id \notin DOMAIN customers
           THEN /\ Finish(p, "null", NoRow)
                /\ UNCHANGED customers
           ELSE LET data == AdjustedRow(customers[args[p].id], snap[p], args[p].points)
                IN  /\ customers' = [customers EXCEPT ![args[p].id] = data]
                    /\ Finish(p, "ok", data)
    /\ UNCHANGED <<audit, nextId, clock, opsStarted, tierIn, tierOut, queried,
                   mock, ui>>

-----------------------------------------------------------------------------
(* deleteCustomer(id) *)

StartDelete(p) ==
    \E id \in IdInputs :
        Begin(p, [op |-> "delete", id |-> id, name |-> << >>, phone |-> << >>,
                  points |-> 0], "delete_row")

\* DeleteRow returning true whatever the store answered
DeleteRow_ignoringError(p) ==
    /\ pc[p] = "delete_row"
    /\ \E fail \in BOOLEAN :
        /\ StoreCall(fail)
        /\ IF fail
           THEN UNCHANGED <<customers, audit>>
           ELSE /\ customers' = [i \in DOMAIN customers \ {args[p].id} |->
                                   customers[i]]
                /\ audit' = OnDeleteSetNull(audit, args[p].id)
        /\ Finish(p, "true", NoRow)
    /\ UNCHANGED <<nextId, clock, opsStarted, tierIn, tierOut, queried, mock, ui>>

\* supabase.from('customers').delete().eq('id', id): a delete that matches no
\* row is no error; the store nulls customer_id on the audit rows of a
\* deleted customer
DeleteRow(p) ==
    /\ pc[p] = "delete_row"
    /\ \E fail \in BOOLEAN :
        /\ StoreCall(fail)
        /\ IF fail
           THEN /\ Finish(p, "false", NoRow)
                /\ UNCHANGED <<customers, audit>>
           ELSE /\ customers' = [i \in DOMAIN customers \ {args[p].id} |->
                                   customers[i]]
                /\ audit' = OnDeleteSetNull(audit, args[p].id)
                /\ Finish(p, "true", NoRow)
    /\ UNCHANGED <<nextId, clock, opsStarted, tierIn, tierOut, queried, mock, ui>>

-----------------------------------------------------------------------------
(* List, Search and the audit queries: one store call each, changing nothing *)

Query(q, rows) ==
    /\ opsStarted < MaxOps
    /\ opsStarted' = opsStarted + 1
    /\ \E fail \in BOOLEAN :
        /\ StoreCall(fail)
        /\ queried' = QueryOutcome([q EXCEPT !.n = queried.n + 1], fail, rows)
    /\ UNCHANGED <<customers, audit, nextId, clock, pc, args, snap, result,
                   tierIn, tierOut, mock, ui>>

List == Query([NoQuery EXCEPT !.op = "list"], ListRows)

Search ==
    \E q \in SearchInputs :
        Query([NoQuery EXCEPT !.op = "search", !.text = q], SearchRows(q))

RecentLogs ==
    \E limit \in LimitInputs :
        Query([NoQuery EXCEPT !.op = "recent", !.limit = limit],
              RecentLogsRows(limit))

CustomerLogs ==
    \E id \in 1..(nextId - 1) :
        Query([NoQuery EXCEPT !.op = "for_customer", !.id = id],
              LogsForCustomer(id))

LogsByAction ==
    \E type \in ActionTypeInputs, limit \in LimitInputs :
        Query([NoQuery EXCEPT !.op = "by_action", !.action = type,
                              !.limit = limit],
              LogsByActionRows(type, limit))

\* PhoneExists(phone, excludeId), the answer recorded in queried.exists
PhoneCheck ==
    \E ph \in PhoneInputs, id \in 0..(nextId - 1) :
        /\ opsStarted < MaxOps
        /\ opsStarted' = opsStarted + 1
        /\ queried' = [NoQuery EXCEPT !.n = queried.n + 1, !.op = "phone_exists",
                                      !.text = ph, !.id = id,
                                      !.exists = PhoneExists(ph, id)]
        /\ UNCHANGED <<customers, audit, nextId, clock, pc, args, snap, result,
                       failures, tierIn, tierOut, mock, ui>>

-----------------------------------------------------------------------------
(* The calls of MockDB: each runs to its return in one step *)

MockCall(m) ==
    /\ opsStarted < MaxOps
    /\ opsStarted' = opsStarted + 1
    /\ mock' = [m EXCEPT !.calls = mock.calls + 1]
    /\ UNCHANGED <<customers, audit, nextId, clock, pc, args, snap, result,
                   failures, tierIn, tierOut, queried, ui>>

\* getCustomers: the timer fires and resolves with a copy of the array
MockGetCustomers ==
    MockCall([mock EXCEPT !.last = [NoMockCall EXCEPT !.op = "getCustomers",
                                                      !.rows = mock.customers]])

MockAddCustomer ==
    \E n \in CreateNameInputs, ph \in MockPhoneInputs, pts \in MockPointsInputs,
       tier \in MockTierInputs, id \in MockIdInputs :
        LET newCustomer == MockNewCustomer(n, ph, pts, tier, id, mock.calls + 1)
        IN  MockCall([mock EXCEPT
                !.customers = Append(@, newCustomer),
                !.last = [NoMockCall EXCEPT !.op = "addCustomer", !.name = n,
                                            !.phone = ph, !.points = pts,
                                            !.found = TRUE, !.row = newCustomer]])

MockUpdatePoints ==
    \E id \in MockLookupInputs, amount \in DeltaInputs :
        LET index == MockFindIndex(mock.customers, id)
            call == [NoMockCall EXCEPT !.op = "updatePoints", !.id = id,
                                       !.points = amount]
        IN  IF index = 0
            THEN MockCall([mock EXCEPT !.last = call])
            ELSE LET row == MockAdjusted(mock.customers[index], amount)
                 IN  MockCall([mock EXCEPT
                         !.customers[index] = row,
                         !.last = [call EXCEPT !.found = TRUE, !.row = row]])

MockSearchCustomers ==
    \E query \in MockSearchInputs :
        MockCall([mock EXCEPT
            !.last = [NoMockCall EXCEPT !.op = "searchCustomers", !.name = query,
                                        !.rows = MockSearchRows(mock.customers, query)]])

-----------------------------------------------------------------------------
(* Specification of the services *)

Next ==
    \/ List
    \/ Search
    \/ RecentLogs
    \/ CustomerLogs
    \/ LogsByAction
    \/ PhoneCheck
    \/ MockGetCustomers
    \/ MockAddCustomer
    \/ MockUpdatePoints
    \/ MockSearchCustomers
    \/ \E p \in Callers :
        \/ StartCreate(p)
        \/ CreateInsert(p)
        \/ StartUpdate(p)
        \/ UpdateWrite(p)
        \/ StartAdjust(p)
        \/ AdjustRead(p)
        \/ AdjustWrite(p)
        \/ StartDelete(p)
        \/ DeleteRow(p)

Spec == Init /\ [][Next]_vars

-----------------------------------------------------------------------------
(* Specification of the tier calculator alone: calculateTier applied to      *)
(* balances around every multiple of 500 between -500 * TierSamples and      *)
(* 500 * TierSamples, the store left empty.                                  *)

TierInputs == {500 * k + j : k \in (0 - TierSamples)..TierSamples, j \in {-1, 0, 1}}

InitTier ==
    /\ customers = << >>
    /\ audit = << >>
    /\ nextId = 1
    /\ clock = 1
    /\ opsStarted = 0
    /\ pc = [p \in Callers |-> "idle"]
    /\ args = [p \in Callers |-> NoArgs]
    /\ snap = [p \in Callers |-> NoRow]
    /\ result = [p \in Callers |-> NoResult]
    /\ failures = 0
    /\ tierIn = 0
    /\ tierOut = "none"
    /\ queried = NoQuery
    /\ mock = InitMock
    /\ ui = InitUi

CalcTier ==
    \E points \in TierInputs :
        /\ tierIn' = points
        /\ tierOut' = calculateTier(points)
        /\ UNCHANGED <<customers, audit, nextId, clock, opsStarted, pc, args, snap,
                       result, failures, queried, mock, ui>>

NextTier == CalcTier

SpecTier == InitTier /\ [][NextTier]_vars

-----------------------------------------------------------------------------
(* Specification of the audit queries alone: getAuditLogs,                   *)
(* getCustomerAuditLogs and getAuditLogsByAction applied to every content of *)
(* audit_logs of at most MaxLogs rows, the rows numbered and dated in the    *)
(* order of their insertion and referencing the two customers of the store.  *)

AuditEntry(i, type, ref) ==
    [id |-> i, action_type |-> type, customer_id |-> Some(ref),
     customer_name |-> <<"a">>,
     points_change |-> IF type = "points_added" THEN Some(100) ELSE Null,
     created_at |-> 4 + i]

AuditLogInputs ==
    UNION { { [i \in 1..n |-> AuditEntry(i, type[i], ref[i])] :
                type \in [1..n -> ActionTypeInputs],
                ref \in [1..n -> CustomerRefInputs] } : n \in 0..MaxLogs }

InitAudit ==
    /\ customers = SeededTwoCustomers
    /\ audit \in AuditLogInputs
    /\ nextId = 3
    /\ clock = 5 + MaxLogs
    /\ opsStarted = 0
    /\ pc = [p \in Callers |-> "idle"]
    /\ args = [p \in Callers |-> NoArgs]
    /\ snap = [p \in Callers |-> NoRow]
    /\ result = [p \in Callers |-> NoResult]
    /\ failures = 0
    /\ tierIn = 0
    /\ tierOut = "none"
    /\ queried = NoQuery
    /\ mock = InitMock
    /\ ui = InitUi

NextAudit ==
    \/ RecentLogs
    \/ CustomerLogs
    \/ LogsByAction

SpecAudit == InitAudit /\ [][NextAudit]_vars
-----------------------------------------------------------------------------
(* Specification of the admin UI. The services are left out: a db call is an *)
(* awaited promise that settles with one of the answers the call can give.   *)
(* A handler runs whenever it is called, whatever else is open; the buttons   *)
(* of the customer list exist only once loading is false.                    *)

InitUI == InitTier

LedgerUnchanged ==
    UNCHANGED <<customers, audit, nextId, clock, opsStarted, pc, args, snap,
                result, failures, tierIn, tierOut, queried, mock>>

\* the db calls of the handlers that have not settled yet
PendingCalls ==
    Cardinality(ui.formPending) + Len(ui.modalPending) + Len(ui.deletePending)

\* the connection test of a fetchCustomers call settles
FetchTestReturns ==
    \E outcome \in FetchTestOutcomes :
        /\ ui.fetchTest > 0
        /\ ui' = IF outcome = "ok"
                 THEN [ui EXCEPT !.fetchTest = @ - 1, !.fetchList = @ + 1]
                 ELSE [ui EXCEPT !.fetchTest = @ - 1, !.loading = FALSE,
                                 !.note = "error"]
        /\ LedgerUnchanged

\* db.getCustomers settles: setCustomers(data); setLoading(false)
FetchListReturns ==
    /\ ui.fetchList > 0
    /\ ui' = [ui EXCEPT !.fetchList = @ - 1, !.loading = FALSE]
    /\ LedgerUnchanged

\* hideNotification, the onClose of the shown notification
NoteClose ==
    /\ ui.note # "none"
    /\ ui' = [ui EXCEPT !.note = "none"]
    /\ LedgerUnchanged

\* "Add Customer" button (c = 0), or a click on a customer's row
FormOpen ==
    \E c \in {0} \cup UiCustomers :
        /\ ~ui.loading
        /\ ui.opened < MaxOpens
        /\ ui' = [ui EXCEPT !.form = FormOpened(@, c,
                                 FreshGen({p.gen : p \in ui.formPending})),
                             !.opened = @ + 1]
        /\ LedgerUnchanged

\* handlePhoneChange: typing clears the phone error
FormEditPhone ==
    /\ ui.form.open
    /\ ui.form.phoneError # ""
    /\ ui' = [ui EXCEPT !.form.phoneError = ""]
    /\ LedgerUnchanged

\* validatePhone as the onBlur handler of the phone input; the inputs stay
\* enabled while a save is awaited
FormBlurPhone ==
    \E phoneValid \in BOOLEAN :
        /\ ui.form.open
        /\ ui' = [ui EXCEPT !.form.phoneError = PhoneErrorAfter(phoneValid)]
        /\ LedgerUnchanged

\* CustomerForm.handleSubmit up to the awaited onSave: validateName and
\* validatePhone both run; the name error is not part of the model's state
FormSubmit ==
    /\ ui.form.open
    /\ ui.form.phoneError = "" /\ ~ui.form.submitting
    /\ \E nameValid, phoneValid \in BOOLEAN :
        IF ~nameValid \/ ~phoneValid
        THEN ui' = [ui EXCEPT !.form.phoneError = PhoneErrorAfter(phoneValid)]
        ELSE /\ PendingCalls < MaxPending
             /\ ui' = [ui EXCEPT !.form.submitting = TRUE,
                                  !.formPending = @ \cup
                                      {[gen |-> ui.form.gen,
                                        customer |-> ui.form.customer]}]
    /\ LedgerUnchanged

\* the db call settles: the rest of App.handleSaveCustomer, then the rest of
\* CustomerForm.handleSubmit
FormSaveReturns ==
    \E c \in ui.formPending : \E outcome \in SaveResults(c.customer) :
        /\ ui' = [ui EXCEPT !.formPending = @ \ {c},
                             !.last = [op |-> "save", outcome |-> outcome],
                             !.note = IF outcome = "ok" THEN "success" ELSE "error",
                             !.form = FormAfterSave(@, c, outcome)]
        /\ LedgerUnchanged

\* the form's close and cancel buttons
FormClose ==
    /\ ui.form.open
    /\ ui' = [ui EXCEPT !.form = ClosedForm(0)]
    /\ LedgerUnchanged

\* the points button of a customer's row: setPointsAdjustmentCustomer(c)
ModalOpen ==
    \E c \in UiCustomers :
        /\ ~ui.loading
        /\ ui.opened < MaxOpens
        /\ ui' = [ui EXCEPT !.modal = ModalOpened(@, c,
                                 FreshGen({ui.modalPending[k].gen :
                                              k \in 1..Len(ui.modalPending)})),
                             !.opened = @ + 1]
        /\ LedgerUnchanged

\* onChange={(e) => setAmount(Number(e.target.value))}
ModalSetAmount ==
    \E a \in AmountInputs :
        /\ ui.modal.open
        /\ a # ui.modal.amount
        /\ ui' = [ui EXCEPT !.modal.amount = a]
        /\ LedgerUnchanged

\* the "Add Earned" and "Redeem" buttons
ModalSetType ==
    \E t \in {"add", "subtract"} :
        /\ ui.modal.open
        /\ t # ui.modal.type
        /\ ui' = [ui EXCEPT !.modal.type = t]
        /\ LedgerUnchanged

\* PointsModal.handleSubmit up to the awaited onUpdate; the form is submitted
\* through its submit button
ModalSubmit ==
    /\ ui.modal.open
    /\ ~SubmitDisabled(ui.modal)
    /\ IF ui.modal.amount <= 0
       THEN UNCHANGED ui
       ELSE /\ PendingCalls < MaxPending
            /\ ui' = [ui EXCEPT
                        !.modal.submitting = TRUE,
                        !.modalPending =
                            Append(@, [gen |-> ui.modal.gen,
                                       id |-> ui.modal.customer,
                                       delta |-> FinalAmount(ui.modal.type,
                                                             ui.modal.amount)])]
    /\ LedgerUnchanged

\* db.updatePoints settles: the rest of App.handleUpdatePoints, which catches
\* every failure, then onClose() and the finally of PointsModal.handleSubmit
ModalUpdateReturns ==
    \E k \in 1..Len(ui.modalPending), outcome \in UpdateOutcomes :
        /\ ui' = [ui EXCEPT !.modalPending = RemoveAt(@, k),
                             !.last = [op |-> "update", outcome |-> outcome],
                             !.note = IF outcome = "ok" THEN "success" ELSE "error",
                             !.modal = ClosedModal(0)]
        /\ LedgerUnchanged

\* the modal's X button
ModalClose ==
    /\ ui.modal.open
    /\ ui' = [ui EXCEPT !.modal = ClosedModal(0)]
    /\ LedgerUnchanged

\* handleDeleteCustomer: the delete button of a customer's row
DialogOpen ==
    \E c \in UiCustomers :
        /\ ~ui.loading
        /\ ui.opened < MaxOpens
        /\ ui' = [ui EXCEPT !.dialog = [isOpen |-> TRUE, customer |-> c],
                             !.last = [op |-> "open", outcome |-> "none"],
                             !.opened = @ + 1]
        /\ LedgerUnchanged

\* confirmDeleteCustomer up to the awaited db.deleteCustomer
DialogConfirm ==
    /\ IF ui.dialog.customer = 0
       THEN UNCHANGED ui
       ELSE /\ PendingCalls < MaxPending
            /\ ui' = [ui EXCEPT !.deletePending = Append(@, ui.dialog.customer),
                                 !.last = [op |-> "confirm", outcome |-> "none"]]
    /\ LedgerUnchanged

\* db.deleteCustomer settles: the rest of confirmDeleteCustomer
DialogDeleteReturns ==
    \E k \in 1..Len(ui.deletePending), outcome \in DeleteOutcomes :
        /\ ui' = [ui EXCEPT !.deletePending = RemoveAt(@, k),
                             !.last = [op |-> "delete", outcome |-> outcome],
                             !.note = IF outcome = "true" THEN "success" ELSE "error",
                             !.dialog = DialogAfterDelete(@, outcome)]
        /\ LedgerUnchanged

\* cancelDeleteCustomer
DialogCancel ==
    /\ ui' = [ui EXCEPT !.dialog = ClosedDialog,
                         !.last = [op |-> "cancel", outcome |-> "none"]]
    /\ LedgerUnchanged

NextUI ==
    \/ FetchTestReturns
    \/ FetchListReturns
    \/ NoteClose
    \/ FormOpen
    \/ FormEditPhone
    \/ FormBlurPhone
    \/ FormSubmit
    \/ FormSaveReturns
    \/ FormClose
    \/ ModalOpen
    \/ ModalSetAmount
    \/ ModalSetType
    \/ ModalSubmit
    \/ ModalUpdateReturns
    \/ ModalClose
    \/ DialogOpen
    \/ DialogConfirm
    \/ DialogDeleteReturns
    \/ DialogCancel

SpecUI == InitUI /\ [][NextUI]_vars

-----------------------------------------------------------------------------
(* The claims *)

\* TierOf as the specification states it
TierOf(p) ==
    IF p >= 5000 THEN "platinum" ELSE IF p >= 1000 THEN "gold" ELSE "standard"

\* caller p takes the step it is at: the store call named from
Step(p, from) == pc[p] = from /\ pc'[p] # from

\* the store call caller p issues in this step fails
FailedStep(p, from) == Step(p, from) /\ failures' > failures

\* the operation of caller p ends in this step with value r
Returns(p, op, r) == pc'[p] = "idle" /\ result'[p] = [op |-> op, value |-> r]

\* the step is a call of MockDB's method op
MockStep(op) == mock'.calls = mock.calls + 1 /\ mock'.last.op = op

\* the step is a List, a Search, an audit query or a PhoneExists
QueryStep == queried'.n = queried.n + 1

\* no operation of the service inserts into audit_logs: the table the code
\* leaves is empty in every state
AuditLogNeverWritten == audit = << >>

Spaces(n) == [k \in 1..n |-> " "]

\* t is s with its leading and trailing spaces removed
IsTrimOf(t, s) ==
    /\ t = << >> \/ (t[1] # " " /\ t[Len(t)] # " ")
    /\ \E a, b \in 0..Len(s) : s = Spaces(a) \o t \o Spaces(b)

\* C1: after any successful mutation every stored customer's tier equals
\* TierOf(points), also after a generic Update whose payload contains points.
C1_TierMatchesPoints ==
    \A i \in DOMAIN customers : customers[i].tier = TierOf(customers[i].points)

\* C2: for every integer balance, negative ones included, the tier is platinum
\* exactly from 5000 up, gold exactly from 1000 to 4999, standard otherwise.
C2_TierThresholds ==
    tierOut # "none" =>
        /\ tierOut \in {"standard", "gold", "platinum"}
        /\ (tierOut = "platinum") <=> (tierIn >= 5000)
        /\ (tierOut = "gold") <=> (tierIn >= 1000 /\ tierIn < 5000)
        /\ (tierOut = "standard") <=> (tierIn < 1000)

C2_Witness == tierIn = 5000 /\ tierOut = "platinum"

\* what a successful adjustment by delta d makes of points and points_redeemed
PointsAdjusted(old, new, d) ==
    /\ new.points = old.points + d
    /\ new.points_redeemed =
          IF d < 0 THEN old.points_redeemed + (0 - d) ELSE old.points_redeemed

\* C3: a successful AdjustPoints(id, delta), of either service, stores
\* oldPoints + delta, TierOf(oldPoints + delta), and oldRedeemed + |delta|
\* when delta < 0 and oldRedeemed otherwise.
C3_AdjustPointsEffect ==
    [][/\ \A p \in Callers :
            (Step(p, "adjust_write") /\ result'[p].value = "ok") =>
                /\ PointsAdjusted(snap[p], customers'[args[p].id], args[p].points)
                /\ customers'[args[p].id].tier =
                      TierOf(snap[p].points + args[p].points)
       /\ (MockStep("updatePoints") /\ mock'.last.found) =>
            LET k == MockFindIndex(mock.customers, mock'.last.id)
                d == mock'.last.points
            IN  /\ PointsAdjusted(mock.customers[k], mock'.customers[k], d)
                /\ mock'.customers[k].tier = TierOf(mock.customers[k].points + d)]_vars

\* C4: a customer's points_redeemed never decreases from one state to the
\* next, also when AdjustPoints calls on the same customer interleave.
C4_RedeemedNeverDecreases ==
    [][\A i \in DOMAIN customers \cap DOMAIN customers' :
        customers'[i].points_redeemed >= customers[i].points_redeemed]_vars

\* C5: no two distinct customer rows hold the same phone.
C5_PhoneUnique ==
    \A i, j \in DOMAIN customers :
        i # j => customers[i].phone # customers[j].phone

\* C6: Create with a phone that, trimmed, is already on a row fails with
\* DuplicatePhone and changes neither the customer rows nor the audit log.
C6_CreateDuplicateRejected ==
    [][/\ \A p \in Callers :
            ( /\ Step(p, "create_insert")
              /\ \E i \in DOMAIN customers :
                    IsTrimOf(customers[i].phone, args[p].phone) )
            => /\ Returns(p, "create", "DuplicatePhone")
               /\ customers' = customers
               /\ audit' = audit
       /\ ( /\ MockStep("addCustomer")
            /\ \E k \in 1..Len(mock.customers) :
                  IsTrimOf(mock.customers[k].phone, mock'.last.phone) )
          => mock'.customers = mock.customers]_vars

\* C7: every Delete(id) that removes the row has written, before the
\* removal, exactly one customer_deleted entry referencing id.
C7_DeleteWritesOneEntry ==
    [][\A p \in Callers :
        ( /\ Step(p, "delete_row")
          /\ args[p].id \in DOMAIN customers
          /\ args[p].id \notin DOMAIN customers' )
        => Cardinality({i \in 1..Len(audit) :
                           /\ audit[i].action_type = "customer_deleted"
                           /\ audit[i].customer_id = Some(args[p].id)}) = 1]_vars

\* C9: once Delete(id) has removed the row, LogsForCustomer(id) returns the
\* customer_deleted entry of that Delete followed by what it returned just
\* before the removal, entry for entry.
C9_LogsSurviveDeletion ==
    [][\A p \in Callers :
        ( /\ Step(p, "delete_row")
          /\ args[p].id \in DOMAIN customers
          /\ args[p].id \notin DOMAIN customers' )
        => LET before == LogsForCustomerIn(audit, args[p].id)
               after == LogsForCustomerIn(audit', args[p].id)
           IN  /\ after # << >>
               /\ Head(after).action_type = "customer_deleted"
               /\ Tail(after) = before]_vars

\* the audit entries that reference customer id, oldest first
EntriesFor(log, id) == SelectSeq(log, LAMBDA e : e.customer_id = Some(id))

\* C10: a Create that returns the new row has appended, after the row was
\* committed, exactly two entries for it when initialPoints > 0
\* (customer_created, then points_added with points_change = initialPoints)
\* and exactly one (customer_created) when initialPoints = 0.
C10_CreateEmitsExact ==
    [][\A p \in Callers :
        (Step(p, "create_insert") /\ result'[p].value = "ok") =>
            LET es == EntriesFor(audit', snap'[p].id)
            IN  /\ EntriesFor(audit, snap'[p].id) = << >>
                /\ Len(es) = IF args[p].points > 0 THEN 2 ELSE 1
                /\ es[1].action_type = "customer_created"
                /\ args[p].points > 0 =>
                      /\ es[2].action_type = "points_added"
                      /\ es[2].points_change = Some(args[p].points)]_vars

\* C11: every AdjustPoints(id, delta) that returns the row has appended
\* exactly one audit entry for id, points_added when delta > 0 and
\* points_redeemed when delta < 0, with points_change = delta.
C11_AdjustEmitsOne ==
    [][\A p \in Callers :
        (Step(p, "adjust_write") /\ result'[p].value = "ok") =>
            /\ Len(audit') = Len(audit) + 1
            /\ audit'[Len(audit')].customer_id = Some(args[p].id)
            /\ audit'[Len(audit')].action_type =
                  IF args[p].points > 0 THEN "points_added" ELSE "points_redeemed"
            /\ audit'[Len(audit')].points_change = Some(args[p].points)]_vars

\* C12: a Delete(id) of an id that has no row (or whose store call fails)
\* returns false and changes neither table; a Delete never reports success
\* for a customer that does not exist.
C12_DeleteMissingNeverSucceeds ==
    [][\A p \in Callers :
        ( /\ Step(p, "delete_row")
          /\ (args[p].id \notin DOMAIN customers \/ failures' > failures) )
        => /\ Returns(p, "delete", "false")
           /\ audit' = audit
           /\ customers' = customers]_vars

\* C13: an AdjustPoints(id, delta) whose read finds no row (or fails) returns
\* the no-result signal and is over: no update is issued, every customer row
\* and the audit log are unchanged. So for SupabaseDB.updatePoints, and for
\* MockDB.updatePoints when findIndex finds no row.
C13_AdjustUnreadableNoResult ==
    [][/\ \A p \in Callers :
            ( /\ Step(p, "adjust_read")
              /\ (args[p].id \notin DOMAIN customers \/ failures' > failures) )
            => /\ Returns(p, "adjust", "null")
               /\ customers' = customers
               /\ audit' = audit
       /\ ( /\ MockStep("updatePoints")
            /\ \A k \in 1..Len(mock.customers) :
                  mock.customers[k].id # mock'.last.id )
          => /\ ~mock'.last.found
             /\ mock'.customers = mock.customers]_vars

\* updatePoints of an id without a row returned null from both services, no
\* store call having failed
C13_Witness ==
    /\ \E p \in Callers :
          /\ pc[p] = "idle"
          /\ result[p] = [op |-> "adjust", value |-> "null"]
          /\ args[p].id \notin DOMAIN customers
          /\ customers = SeededCustomers
    /\ failures = 0
    /\ mock.last.op = "updatePoints"
    /\ mock.last.id = "9"
    /\ ~mock.last.found
    /\ mock.customers = MockCustomers

\* C14: an Update(id, fields) whose phone is held by a different customer
\* fails with DuplicatePhone and leaves the customer rows and the audit log
\* unchanged.
C14_UpdateDuplicateRejected ==
    [][\A p \in Callers :
        ( /\ Step(p, "update_write")
          /\ \E i \in DOMAIN customers :
                i # args[p].id /\ customers[i].phone = args[p].phone )
        => /\ Returns(p, "update", "DuplicatePhone")
           /\ customers' = customers
           /\ audit' = audit]_vars

\* C15: PhoneExists(phone, excludeId) is true exactly when some row other
\* than excludeId holds the phone argument with its surrounding spaces
\* removed; it is false for a customer's own phone when excludeId is that
\* customer's id.
C15_PhoneExistsExact ==
    [][(QueryStep /\ queried'.op = "phone_exists") =>
        /\ queried'.exists <=>
              \E i \in DOMAIN customers :
                  i # queried'.id /\ IsTrimOf(customers[i].phone, queried'.text)
        /\ customers' = customers]_vars

\* PhoneExists("1 ", 1) answered false while customer 1 holds "1", and no
\* other row does
C15_Witness ==
    /\ queried.op = "phone_exists"
    /\ queried.id = 1
    /\ queried.text = <<"1", " ">>
    /\ ~queried.exists
    /\ customers = SeededTwoCustomers

\* C16: when its store call fails, each of List, Search, RecentLogs,
\* LogsForCustomer and LogsByAction returns the empty sequence, raises nothing
\* and leaves the store unchanged.
C16_QueriesFailSoftly ==
    [][(QueryStep /\ queried'.op # "phone_exists") =>
        /\ queried'.op \in {"list", "search", "recent", "for_customer", "by_action"}
        /\ queried'.failed = (failures' > failures)
        /\ queried'.failed => (queried'.rows = << >> /\ ~queried'.raised)
        /\ customers' = customers
        /\ audit' = audit
        /\ nextId' = nextId
        /\ clock' = clock]_vars

\* a failed List over a table that holds customers
C16_Witness ==
    /\ queried.op = "list"
    /\ queried.failed
    /\ queried.rows = << >>
    /\ ~queried.raised
    /\ customers = SeededTwoCustomers

\* C17: when the store call of a mutation fails, the operation ends with its
\* failure signal, never with a success result (Create raises an error,
\* Update and AdjustPoints return the no-result value, Delete returns false),
\* and the customer table is as it was.
C17_MutationFailureSignalled ==
    [][\A p \in Callers :
        /\ FailedStep(p, "create_insert") =>
              (Returns(p, "create", "Error") /\ customers' = customers)
        /\ FailedStep(p, "update_write") =>
              (Returns(p, "update", "null") /\ customers' = customers)
        /\ (FailedStep(p, "adjust_read") \/ FailedStep(p, "adjust_write")) =>
              (Returns(p, "adjust", "null") /\ customers' = customers)
        /\ FailedStep(p, "delete_row") =>
              (Returns(p, "delete", "false") /\ customers' = customers)
        /\ Step(p, "adjust_read") => customers' = customers]_vars

\* a Delete whose store delete failed: false, the row still there
C17_Witness ==
    \E p \in Callers :
        /\ pc[p] = "idle"
        /\ result[p] = [op |-> "delete", value |-> "false"]
        /\ failures = 1
        /\ args[p].id \in DOMAIN customers
        /\ customers = SeededCustomers

Min(a, b) == IF a < b THEN a ELSE b

\* rows are entries of log, newest first, and no entry of log satisfying Keep
\* that is left out is newer than one that is returned
NewestOf(rows, log, Keep(_), limit) ==
    LET kept == {i \in 1..Len(log) : Keep(log[i])}
    IN  /\ Len(rows) = Min(limit, Cardinality(kept))
        /\ \A k \in 1..Len(rows) : \E i \in kept : rows[k] = log[i]
        /\ \A k \in 1..(Len(rows) - 1) : rows[k].created_at > rows[k + 1].created_at
        /\ \A i \in kept :
              (\A k \in 1..Len(rows) : rows[k] # log[i]) =>
                  \A k \in 1..Len(rows) : log[i].created_at < rows[k].created_at

\* C19: RecentLogs(limit) returns the min(limit, N) audit entries with the
\* greatest created_at, newest first; LogsByAction(actionType, limit) returns
\* only entries of that action_type, the newest min(limit, matching) of them,
\* newest first: the filter is applied before the limit.
C19_AuditQueriesOrdered ==
    [][(QueryStep /\ ~queried'.failed) =>
        /\ queried'.op = "recent" =>
              NewestOf(queried'.rows, audit, LAMBDA r : TRUE, queried'.limit)
        /\ queried'.op = "by_action" =>
              NewestOf(queried'.rows, audit,
                       LAMBDA r : r.action_type = queried'.action,
                       queried'.limit)]_vars

\* LogsByAction(customer_created, 1) over a log whose newest entry is of
\* another kind returned the newest customer_created entry
C19_Witness ==
    /\ queried.op = "by_action"
    /\ queried.action = "customer_created"
    /\ queried.limit = 1
    /\ ~queried.failed
    /\ Len(queried.rows) = 1
    /\ Len(audit) >= 2
    /\ audit[Len(audit)].action_type # "customer_created"
    /\ \E i \in 1..Len(audit) : audit[i] = queried.rows[1]

\* C20: every audit entry has one of the five action types of the ledger;
\* no tier_changed entry is ever written, not even by an AdjustPoints that
\* changes the customer's tier.
C20_NoTierChangedEntry ==
    \A i \in 1..Len(audit) :
        /\ audit[i].action_type \in {"customer_created", "customer_updated",
                                      "customer_deleted", "points_added",
                                      "points_redeemed"}
        /\ audit[i].action_type # "tier_changed"

\* AdjustPoints(1, +100) took customer 1 from 950, standard to 1050, gold and
\* the audit log is as it was
C20_Witness ==
    \E p \in Callers :
        /\ pc[p] = "idle"
        /\ result[p] = [op |-> "adjust", value |-> "ok"]
        /\ args[p].points = 100
        /\ args[p].id \in DOMAIN customers
        /\ customers[args[p].id].points = 1050
        /\ customers[args[p].id].tier = "gold"
        /\ audit = << >>

\* C21, for the first operation on a seeded store: once an AdjustPoints has
\* returned success and left the customer in another tier than the one it
\* started in, the audit log holds a tier_changed entry for that customer.
C21_TierChangeLogged ==
    \A p \in Callers :
        ( /\ opsStarted = 1
          /\ pc[p] = "idle"
          /\ result[p] = [op |-> "adjust", value |-> "ok"]
          /\ args[p].id \in DOMAIN customers
          /\ customers[args[p].id].tier # SeededTwoCustomers[args[p].id].tier )
        => \E i \in 1..Len(audit) :
              /\ audit[i].action_type = "tier_changed"
              /\ audit[i].customer_id = Some(args[p].id)

\* two AdjustPoints on the same seeded customer, the only operations so far,
\* both returned success
BothAdjusted ==
    /\ opsStarted = 2
    /\ \A p \in Callers :
          pc[p] = "idle" /\ result[p] = [op |-> "adjust", value |-> "ok"]
    /\ args[1].id = args[2].id

\* C23: when two AdjustPoints d1, d2 on the same customer overlapped and both
\* returned success, the stored points is initial + d1 + d2 or, an update
\* being lost, initial + d1 or initial + d2. An AdjustPoints that no other
\* caller's operation overlaps adds its delta to the stored points, so that
\* calls made one after the other end at initial + d1 + d2.
C23_LostUpdateOnlyWhenInterleaved ==
    [][/\ BothAdjusted' =>
            LET init == SeededTwoCustomers[args'[1].id].points
                d1 == args'[1].points
                d2 == args'[2].points
            IN  customers'[args'[1].id].points \in
                    {init + d1 + d2, init + d1, init + d2}
       /\ ( /\ Step(1, "adjust_write")
            /\ result'[1].value = "ok"
            /\ args[2].op = "none" )
          => customers'[args[1].id].points =
                customers[args[1].id].points + args[1].points]_vars

\* the lost update: +100 and -1050 on customer 1 (950 points) both returned
\* success and the stored balance is 950 - 1050, the +100 is lost
C23_Witness ==
    /\ BothAdjusted
    /\ args[1].id = 1
    /\ {args[1].points, args[2].points} = {100, -1050}
    /\ customers[1].points = -100

\* the same two adjustments one after the other: 950 + 100 - 1050 = 0
C23_WitnessSequential ==
    /\ opsStarted = 2
    /\ args[2].op = "none"
    /\ pc[1] = "idle"
    /\ result[1] = [op |-> "adjust", value |-> "ok"]
    /\ args[1].id = 1
    /\ args[1].points = -1050
    /\ customers[1].points = 0
    /\ customers[1].points_redeemed = 1050

\* C24: an AdjustPoints whose negative delta exceeds the points it read is
\* not refused: its write step ends the call without a row only when the
\* store call fails or the row is gone, and otherwise stores the negative
\* balance old + delta, points_redeemed grown by |delta|, and the standard
\* tier.
C24_NoClampAtZero ==
    [][\A p \in Callers :
        ( /\ Step(p, "adjust_write")
          /\ args[p].points < 0
          /\ snap[p].points + args[p].points < 0 )
        => IF failures' > failures \/ args[p].id \notin DOMAIN customers
           THEN Returns(p, "adjust", "null")
           ELSE /\ Returns(p, "adjust", "ok")
                /\ customers'[args[p].id].points = snap[p].points + args[p].points
                /\ customers'[args[p].id].points < 0
                /\ customers'[args[p].id].points_redeemed =
                      snap[p].points_redeemed + Abs(args[p].points)
                /\ customers'[args[p].id].tier = "standard"]_vars

\* -1050 applied to 950 points: the call returned success and the row holds
\* -100 points, 1050 redeemed, standard
C24_Witness ==
    /\ opsStarted = 1
    /\ pc[1] = "idle"
    /\ result[1] = [op |-> "adjust", value |-> "ok"]
    /\ args[1].points = -1050
    /\ customers[args[1].id].points = -100
    /\ customers[args[1].id].points_redeemed = 1050
    /\ customers[args[1].id].tier = "standard"

\* entry e records an adjustment of customer id
IsAdjustEntry(e, id) ==
    /\ e.action_type \in {"points_added", "points_redeemed"}
    /\ e.customer_id = Some(id)

\* sum of points_change over the points_added and points_redeemed entries
\* of log that reference customer id
RECURSIVE PointsLogged(_, _)
PointsLogged(log, id) ==
    IF log = << >> THEN 0
    ELSE PointsLogged(Tail(log), id)
         + IF IsAdjustEntry(Head(log), id) THEN Head(log).points_change[1] ELSE 0

\* no two operations overlapped: caller 2 never started one and caller 1 is
\* between operations
NonInterleaved == args[2].op = "none" /\ pc[1] = "idle"

\* C25: after a non-interleaved sequence of operations in which no store
\* call failed, the stored points of every customer equals the sum of
\* points_change over the points_added and points_redeemed entries
\* referencing it.
C25_AuditReconciles ==
    \A id \in DOMAIN customers :
        (NonInterleaved /\ failures = 0)
        => customers[id].points = PointsLogged(audit, id)

\* C28: no step of an AdjustPoints(id, delta), whether the call succeeds or
\* fails, adds or removes a customer row, changes a field of another
\* customer, or changes the name, phone, id or created_at of customer id.
\* So for SupabaseDB.updatePoints and for MockDB.updatePoints.
C28_AdjustFrame ==
    [][/\ \A p \in Callers :
            (Step(p, "adjust_read") \/ Step(p, "adjust_write"))
            => /\ DOMAIN customers' = DOMAIN customers
               /\ \A i \in DOMAIN customers :
                     IF i = args[p].id
                     THEN /\ customers'[i].name = customers[i].name
                          /\ customers'[i].phone = customers[i].phone
                          /\ customers'[i].id = customers[i].id
                          /\ customers'[i].created_at = customers[i].created_at
                     ELSE customers'[i] = customers[i]
       /\ MockStep("updatePoints") =>
            /\ Len(mock'.customers) = Len(mock.customers)
            /\ \A k \in 1..Len(mock.customers) :
                  IF k = MockFindIndex(mock.customers, mock'.last.id)
                  THEN /\ mock'.customers[k].name = mock.customers[k].name
                       /\ mock'.customers[k].phone = mock.customers[k].phone
                       /\ mock'.customers[k].id = mock.customers[k].id
                       /\ mock'.customers[k].created_at = mock.customers[k].created_at
                  ELSE mock'.customers[k] = mock.customers[k]]_vars

\* an AdjustPoints(1, +100) read 950 points, an Update then renamed the
\* customer, and the adjustment wrote 1050 points over the renamed row
C28_Witness ==
    \E p, q \in Callers :
        /\ pc[p] = "idle"
        /\ result[p] = [op |-> "adjust", value |-> "ok"]
        /\ args[p].id = 1 /\ args[p].points = 100
        /\ result[q] = [op |-> "update", value |-> "ok"]
        /\ args[q].id = 1
        /\ customers[1].points = 1050
        /\ customers[1].name # SeededTwoCustomers[1].name
        /\ customers[1].created_at = SeededTwoCustomers[1].created_at

\* db.deleteCustomer is called in this step
DeleteCalled == Len(ui'.deletePending) > Len(ui.deletePending)

\* C29: db.deleteCustomer(id) is called only by a confirmation given while
\* the dialog is open for customer id; a cancel calls nothing; and both the
\* cancel and the end of a confirmed delete, successful or failed, leave the
\* dialog closed with no customer.
C29_DeleteOnlyAfterConfirm ==
    [][/\ DeleteCalled =>
            /\ ui.dialog.isOpen
            /\ ui.dialog.customer # 0
            /\ ui'.deletePending = Append(ui.deletePending, ui.dialog.customer)
            /\ ui'.last.op = "confirm"
       /\ (ui' # ui /\ ui'.last.op = "cancel") =>
            /\ ui'.deletePending = ui.deletePending
            /\ ui'.dialog = [isOpen |-> FALSE, customer |-> 0]
       /\ Len(ui'.deletePending) < Len(ui.deletePending) =>
            /\ ui'.last.op = "delete"
            /\ ui'.last.outcome \in {"true", "false"}
            /\ ui'.dialog = [isOpen |-> FALSE, customer |-> 0]]_vars

\* a confirmed delete failed: nothing is pending, the error notification is
\* shown and the dialog is closed
C29_Witness ==
    /\ ui.last = [op |-> "delete", outcome |-> "false"]
    /\ ui.note = "error"
    /\ ui.deletePending = << >>
    /\ ui.dialog = [isOpen |-> FALSE, customer |-> 0]

\* onUpdate is called in this step
UpdateCalled == Len(ui'.modalPending) > Len(ui.modalPending)

\* C30: onUpdate(id, delta) is called only by the open modal with
\* amount > 0, for the modal's customer, with delta = +amount for type add
\* and -amount for type subtract, hence never zero; and only while the
\* isSubmitting of that modal instance is false and no earlier call of that
\* instance is pending; the call sets isSubmitting.
C30_ModalSubmitsNonZero ==
    [][UpdateCalled =>
        LET c == ui'.modalPending[Len(ui'.modalPending)]
        IN  /\ ui'.modalPending = Append(ui.modalPending, c)
            /\ ui.modal.open
            /\ ui.modal.amount > 0
            /\ c.id = ui.modal.customer
            /\ c.delta # 0
            /\ ui.modal.type = "add" => c.delta = ui.modal.amount
            /\ ui.modal.type = "subtract" => c.delta = 0 - ui.modal.amount
            /\ ~ui.modal.submitting
            /\ \A k \in 1..Len(ui.modalPending) :
                  ui.modalPending[k].gen # ui.modal.gen
            /\ ui'.modal.submitting]_vars

\* a redemption of 5 points is in flight, the modal that issued it still
\* open with isSubmitting set
C30_Witness ==
    /\ ui.modal.open
    /\ ui.modal.submitting
    /\ ui.modal.type = "subtract"
    /\ ui.modal.amount = 5
    /\ ui.modalPending = <<[gen |-> ui.modal.gen, id |-> ui.modal.customer,
                             delta |-> -5]>>

====
